---- MODULE Spec2Model ----
(***************************************************************************)
(* Model of the patch-safety tools of devflow-agent                        *)
(* (src/python-agents/tools.py): logged_file_write, logged_editor and      *)
(* apply_unified_patch, acting on a small file tree; and of the label      *)
(* routing of POST /api/process of its two agent servers.                  *)
(*                                                                         *)
(* A text (str or file bytes) is a sequence of one-character strings.      *)
(* A path is a text, relative to the working directory of the process.     *)
(***************************************************************************)
EXTENDS Integers, Sequences, FiniteSets, TLC

VARIABLES
    fs,          \* the file tree: path -> [kind: "absent" | "dir" | "file", data: bytes]
    os_linesep,  \* os.linesep of the platform: <<"\n">> or <<"\r","\n">>
    git_ok,      \* whether the git executable can be started (subprocess.Popen succeeds)
    autocrlf,    \* core.autocrlf of the repository configuration
    pc,          \* the caller: "idle" between calls, "git_apply" while a call blocks
                 \* in communicate(), "returned" when it holds the result of a call
    call,        \* the arguments of the current call
    fs0,         \* the file tree when that call started
    result,      \* what that call returned
    log,         \* the file-system and process operations of that call, in order
    proc         \* what the git apply subprocess of that call ended with:
                 \* returncode, stdout and stderr of communicate()

vars == <<fs, os_linesep, git_ok, autocrlf, pc, call, fs0, result, log, proc>>

-----------------------------------------------------------------------------
(* Bounds of the model *)

\* longest old_str / new_str / content drawn character by character
MaxStrLen == 2
\* longest initial file content drawn character by character
MaxFileLen == 3

(* Program constants *)

\* logged_editor: len(old_str) > 300 or len(new_str) > 300
EDITOR_MAX_CHARS == 300
\* logged_editor: _line_count(old_str) > 6 or _line_count(new_str) > 6
EDITOR_MAX_LINES == 6

-----------------------------------------------------------------------------
(* Python str operations *)

CR == "\r"
LF == "\n"
Char == {"a", CR, LF}

\* all texts over the alphabet S of length at most n
RECURSIVE StrsOver(_, _)
StrsOver(S, n) ==
    IF n = 0 THEN {<<>>}
    ELSE LET shorter == StrsOver(S, n - 1)
         IN  shorter \cup {Append(s, c) : s \in shorter, c \in S}

\* c repeated n times
Rep(c, n) == [i \in 1..n |-> c]

\* s[i:] of Python, i counted from 0
Drop(s, i) == SubSeq(s, i + 1, Len(s))

\* s.startswith(p)
StartsWith(s, p) == Len(p) <= Len(s) /\ SubSeq(s, 1, Len(p)) = p

\* s.find(t) + 1: the position of the leftmost occurrence of t in s, 0 if none
Find(s, t) ==
    LET hits == {i \in 1..(Len(s) - Len(t) + 1) : SubSeq(s, i, i + Len(t) - 1) = t}
    IN  IF hits = {} THEN 0 ELSE CHOOSE i \in hits : \A j \in hits : i <= j

\* a slip that finds no empty text
Contains_nonempty(s, t) == t # <<>> /\ Find(s, t) # 0

\* t in s
Contains(s, t) == Find(s, t) # 0

\* s.replace(old, new, 1)
ReplaceFirst(s, old, new) ==
    LET i == Find(s, old)
    IN  IF i = 0 THEN s
        ELSE SubSeq(s, 1, i - 1) \o new \o SubSeq(s, i + Len(old), Len(s))

\* s.replace(old, new) for a non-empty old: every non-overlapping occurrence,
\* scanning from the left
RECURSIVE ReplaceAll(_, _, _)
ReplaceAll(s, old, new) ==
    LET i == Find(s, old)
    IN  IF i = 0 THEN s
        ELSE SubSeq(s, 1, i - 1) \o new
               \o ReplaceAll(SubSeq(s, i + Len(old), Len(s)), old, new)

\* s.count(c) for a one-character c
Count(s, c) == Cardinality({i \in 1..Len(s) : s[i] = c})

-----------------------------------------------------------------------------
(* Text-mode file I/O of Python: open(path, "r") and open(path, "w") with   *)
(* the default newline=None                                                 *)

\* f.read(): universal newlines, "\r\n" and a lone "\r" both arrive as "\n"
ReadText(bytes) == ReplaceAll(ReplaceAll(bytes, <<CR, LF>>, <<LF>>), <<CR>>, <<LF>>)

\* f.write(s): every "\n" is written as os.linesep
WriteText(s, linesep) == ReplaceAll(s, <<LF>>, linesep)

\* sum(1 for _ in f): the number of lines of a file opened in text mode
FileLineCount(bytes) ==
    LET t == ReadText(bytes)
    IN  Count(t, LF) + (IF Len(t) > 0 /\ t[Len(t)] # LF THEN 1 ELSE 0)

-----------------------------------------------------------------------------
(* The file tree *)

Slash == "/"
P_f  == <<"f">>
P_g  == <<"g">>
P_d  == <<"d">>
P_dh == <<"d", Slash, "h">>
P_n  == <<"n">>
P_ne == <<"n", Slash, "e">>
P_neh == <<"n", Slash, "e", Slash, "h">>
Paths == {P_f, P_g, P_d, P_dh, P_n, P_ne, P_neh}

Absent == [kind |-> "absent", data |-> <<>>]
Dir    == [kind |-> "dir", data |-> <<>>]
File(bytes) == [kind |-> "file", data |-> bytes]

\* os.path.dirname(path); <<>> is the working directory itself
Dirname(p) ==
    LET cuts == {i \in 1..Len(p) : p[i] = Slash}
    IN  IF cuts = {} THEN <<>>
        ELSE SubSeq(p, 1, (CHOOSE i \in cuts : \A j \in cuts : j <= i) - 1)

\* the proper ancestors of p below the working directory
RECURSIVE Ancestors(_)
Ancestors(p) ==
    IF Dirname(p) = <<>> THEN {} ELSE {Dirname(p)} \cup Ancestors(Dirname(p))

KindAt(tree, p) == IF p \in DOMAIN tree THEN tree[p].kind ELSE "absent"

\* os.path.exists(path)
Exists(tree, p) == KindAt(tree, p) # "absent"

\* a tree a file system can hold: whatever exists lies in directories
WellFormed(tree) ==
    \A p \in DOMAIN tree :
        Exists(tree, p) => \A q \in Ancestors(p) : KindAt(tree, q) = "dir"

NoCall == [tool |-> "none", path |-> <<>>, old_str |-> <<>>, new_str |-> <<>>,
           content |-> <<>>, patch_text |-> <<>>, rest |-> <<>>, three_way |-> TRUE,
           server |-> "none", labels |-> {}]
\* a returned string: its kind, the path it names, the subprocess output it
\* quotes, the numbers it states and the advice it gives
NoResult == [kind |-> "none", path |-> <<>>, out |-> <<>>, err |-> <<>>,
             metrics |-> <<>>, guidance |-> {}]
Result(k, p) == [NoResult EXCEPT !.kind = k, !.path = p]
\* no subprocess has ended
NoProc == [code |-> -1, out |-> <<>>, err |-> <<>>]
\* an operation on the path p; an operation with arguments (a written text, a command line)
Op(name, p) == [op |-> name, path |-> p, args |-> <<>>]
OpArgs(name, a) == [op |-> name, path |-> <<>>, args |-> a]
OpOn(name, p, a) == [op |-> name, path |-> p, args |-> a]

-----------------------------------------------------------------------------
(* logged_file_write(path, content) *)

\* os.makedirs(dir_path, exist_ok=True) raises when an ancestor is a file
MakedirsFails(tree, d) == \E q \in {d} \cup Ancestors(d) : KindAt(tree, q) = "file"

\* a slip that creates the last directory only
Makedirs_parent_only(tree, d) ==
    [p \in DOMAIN tree |-> IF p = d THEN Dir ELSE tree[p]]

\* os.makedirs(dir_path, exist_ok=True): the directory and its missing ancestors
Makedirs(tree, d) ==
    [p \in DOMAIN tree |-> IF p \in ({d} \cup Ancestors(d)) \ {<<>>} THEN Dir ELSE tree[p]]

\* a slip that guards only files holding content
WriteRefused_nonempty(tree, path) == KindAt(tree, path) = "file" /\ tree[path].data # <<>>

\* if os.path.exists(path): refuse
WriteRefused(tree, path) == Exists(tree, path)

logged_file_write(path, content) ==
    /\ pc = "idle"
    /\ call' = [NoCall EXCEPT !.tool = "logged_file_write", !.path = path,
                              !.content = content]
    /\ fs0' = fs
    /\ IF WriteRefused(fs, path)
       THEN \* Refusing to overwrite existing file
            /\ result' = Result("overwrite_refused", path)
            /\ log' = <<Op("exists", path)>>
            /\ fs' = fs
       ELSE IF MakedirsFails(fs, Dirname(path))
       THEN \* except Exception: Error writing
            /\ result' = Result("error_writing", path)
            /\ log' = <<Op("exists", path), Op("makedirs", Dirname(path))>>
            /\ fs' = fs
       ELSE /\ result' = Result("wrote", path)
            /\ log' = <<Op("exists", path), Op("makedirs", Dirname(path)),
                        Op("write", path)>>
            /\ fs' = [Makedirs(fs, Dirname(path)) EXCEPT
                         ![path] = File(WriteText(content, os_linesep))]
    /\ pc' = "returned"
    /\ UNCHANGED <<os_linesep, git_ok, autocrlf, proc>>

-----------------------------------------------------------------------------
(* logged_editor(path, old_str, new_str) *)

_line_count(s) == IF s # <<>> THEN Count(s, LF) + 1 ELSE 0

\* a slip that turns the limits into strict ones
TooLarge_strict(old_str, new_str) ==
    \/ Len(old_str) >= EDITOR_MAX_CHARS
    \/ Len(new_str) >= EDITOR_MAX_CHARS
    \/ _line_count(old_str) >= EDITOR_MAX_LINES
    \/ _line_count(new_str) >= EDITOR_MAX_LINES

TooLarge(old_str, new_str) ==
    \/ Len(old_str) > EDITOR_MAX_CHARS
    \/ Len(new_str) > EDITOR_MAX_CHARS
    \/ _line_count(old_str) > EDITOR_MAX_LINES
    \/ _line_count(new_str) > EDITOR_MAX_LINES

\* lines 172-185: the text to write, or "not found"
EditorFound(original, old_str) ==
    \/ Contains(original, old_str)
    \/ Contains(ReplaceAll(original, <<CR, LF>>, <<LF>>),
                ReplaceAll(old_str, <<CR, LF>>, <<LF>>))

EditorUpdated(original, old_str, new_str) ==
    IF Contains(original, old_str)
    THEN ReplaceFirst(original, old_str, new_str)
    ELSE LET orig_style    == IF Contains(original, <<CR, LF>>) THEN <<CR, LF>> ELSE <<LF>>
             norm_original == ReplaceAll(original, <<CR, LF>>, <<LF>>)
             norm_old      == ReplaceAll(old_str, <<CR, LF>>, <<LF>>)
             norm_new      == ReplaceAll(new_str, <<CR, LF>>, <<LF>>)
             norm_updated  == ReplaceFirst(norm_original, norm_old, norm_new)
         IN  ReplaceAll(norm_updated, <<LF>>, orig_style)

\* a slip that compares lengths only
EditorNoOp_same_length(original, updated) == Len(updated) = Len(original)

\* line 187: updated == original
EditorNoOp(original, updated) == updated = original

logged_editor(path, old_str, new_str) ==
    /\ pc = "idle"
    /\ call' = [NoCall EXCEPT !.tool = "logged_editor", !.path = path,
                              !.old_str = old_str, !.new_str = new_str]
    /\ fs0' = fs
    /\ IF TooLarge(old_str, new_str)
       THEN /\ result' = Result("refused_large", path)
            /\ log' = <<>>
            /\ fs' = fs
       ELSE IF ~Exists(fs, path)
       THEN /\ result' = Result("not_exist", path)
            /\ log' = <<Op("exists", path)>>
            /\ fs' = fs
       ELSE IF fs[path].kind = "dir"
       THEN \* open() raises; except Exception: Error editing
            /\ result' = Result("error_editing", path)
            /\ log' = <<Op("exists", path), Op("read", path)>>
            /\ fs' = fs
       ELSE LET original == ReadText(fs[path].data)
                updated  == EditorUpdated(original, old_str, new_str)
            IN  IF ~EditorFound(original, old_str)
                THEN /\ result' = Result("pattern_not_found", path)
                     /\ log' = <<Op("exists", path), Op("read", path)>>
                     /\ fs' = fs
                ELSE IF EditorNoOp(original, updated)
                THEN /\ result' = Result("no_change", path)
                     /\ log' = <<Op("exists", path), Op("read", path)>>
                     /\ fs' = fs
                ELSE /\ result' = Result("edited", path)
                     /\ log' = <<Op("exists", path), Op("read", path),
                                 Op("write", path)>>
                     /\ fs' = [fs EXCEPT ![path] = File(WriteText(updated, os_linesep))]
    /\ pc' = "returned"
    /\ UNCHANGED <<os_linesep, git_ok, autocrlf, proc>>

-----------------------------------------------------------------------------
(* apply_unified_patch(patch_text, three_way): parsing and analysis *)

Space == " "
S_DIFF_GIT == <<"d", "i", "f", "f", Space, "-", "-", "g", "i", "t", Space>>
S_MINUS3 == <<"-", "-", "-">>
S_PLUS3 == <<"+", "+", "+">>
S_HUNK == <<"@", "@", Space>>
S_DEV_NULL == <<Slash, "d", "e", "v", Slash, "n", "u", "l", "l">>
S_ALLOW_FULL_REWRITE ==
    <<"[", "A", "L", "L", "O", "W", "_", "F", "U", "L", "L", "_",
      "R", "E", "W", "R", "I", "T", "E", "]">>

\* patch_text.replace("\r\n", "\n")
NormalizePatch(patch_text) == ReplaceAll(patch_text, <<CR, LF>>, <<LF>>)

\* "[ALLOW_FULL_REWRITE]" in patch_text
AllowFull(text) == Contains(text, S_ALLOW_FULL_REWRITE)

\* text.splitlines(keepends=False): a line ends at "\n", "\r" or "\r\n"; no
\* empty last line after a final line ending
RECURSIVE SplitLines(_)
SplitLines(text) ==
    IF text = <<>> THEN <<>>
    ELSE LET ends == {i \in 1..Len(text) : text[i] \in {CR, LF}}
         IN  IF ends = {} THEN <<text>>
             ELSE LET e == CHOOSE i \in ends : \A j \in ends : i <= j
                      w == IF text[e] = CR /\ e < Len(text) /\ text[e + 1] = LF
                           THEN 2 ELSE 1
                  IN  <<SubSeq(text, 1, e - 1)>> \o SplitLines(Drop(text, e + w - 1))

\* s.strip() over the white space of the alphabet
RECURSIVE Strip(_)
Strip(s) ==
    IF s = <<>> THEN s
    ELSE IF s[1] = Space THEN Strip(Tail(s))
    ELSE IF s[Len(s)] = Space THEN Strip(SubSeq(s, 1, Len(s) - 1))
    ELSE s

\* s.rstrip()
RECURSIVE RStrip(_)
RStrip(s) ==
    IF s # <<>> /\ s[Len(s)] \in {Space, CR, LF} THEN RStrip(SubSeq(s, 1, Len(s) - 1))
    ELSE s

\* the block being collected; None and "" are both written <<>> (the code
\* only tests the truth of a path)
NewBlock == [a |-> <<>>, b |-> <<>>, lines |-> <<>>]

\* a slip that keeps every section that has lines
Kept_any(current) == current.lines # <<>>

\* if current["a"] and current["lines"]
Kept(current) == current.a # <<>> /\ current.lines # <<>>

\* lines 243-255: the loop over the lines, then the last block
RECURSIVE ParseFrom(_, _, _)
ParseFrom(lines, current, files) ==
    IF lines = <<>>
    THEN IF Kept(current) THEN Append(files, current) ELSE files
    ELSE LET ln == Head(lines)
             isdiff == StartsWith(ln, S_DIFF_GIT)
             files1 == IF isdiff /\ Kept(current) THEN Append(files, current) ELSE files
             cur1 == IF isdiff THEN NewBlock
                     ELSE IF StartsWith(ln, Append(S_MINUS3, Space))
                          THEN [current EXCEPT !.a = Strip(Drop(ln, 4))]
                     ELSE IF StartsWith(ln, Append(S_PLUS3, Space))
                          THEN [current EXCEPT !.b = Strip(Drop(ln, 4))]
                     ELSE current
         IN  ParseFrom(Tail(lines), [cur1 EXCEPT !.lines = Append(@, ln)], files1)

\* the file blocks of a normalized buffer
ParseBlocks(text) == ParseFrom(SplitLines(text), NewBlock, <<>>)

\* _strip_prefix(p), None written <<>>
_strip_prefix(p) ==
    IF p = <<>> \/ p = S_DEV_NULL THEN <<>>
    ELSE IF StartsWith(p, <<"a", Slash>>) \/ StartsWith(p, <<"b", Slash>>) THEN Drop(p, 2)
    ELSE p

\* a slip that prefers the source path
Target_source_first(fb) == IF _strip_prefix(fb.a) # <<>> THEN _strip_prefix(fb.a) ELSE _strip_prefix(fb.b)

\* target = _strip_prefix(b) or _strip_prefix(a)
Target(fb) == IF _strip_prefix(fb.b) # <<>> THEN _strip_prefix(fb.b) ELSE _strip_prefix(fb.a)

Digits == {"0", "1", "2", "3", "4", "5", "6", "7", "8", "9"}
DigitValue(c) == CHOOSE v \in 0..9 : <<"0", "1", "2", "3", "4", "5", "6", "7", "8", "9">>[v + 1] = c

\* the number of digits of s from position i on
RECURSIVE DigitRun(_, _)
DigitRun(s, i) == IF i <= Len(s) /\ s[i] \in Digits THEN 1 + DigitRun(s, i + 1) ELSE 0

\* int(s) of a text of digits
RECURSIVE IntOf(_)
IntOf(s) == IF s = <<>> THEN 0 ELSE 10 * IntOf(SubSeq(s, 1, Len(s) - 1)) + DigitValue(s[Len(s)])

\* the position after \d+(?:,\d+)? matched at position i, 0 when \d+ fails
AfterRange(s, i) ==
    LET n == DigitRun(s, i)
        j == i + n
        m == IF j <= Len(s) /\ s[j] = "," THEN DigitRun(s, j + 1) ELSE 0
    IN  IF n = 0 THEN 0 ELSE IF m > 0 THEN j + 1 + m ELSE j

\* re.match(r"@@ -\d+(?:,\d+)? \+(\d+)(?:,\d+)? @@", ln): group 1 as a number,
\* -1 when the line does not match
HunkNewStart(ln) ==
    LET i1 == AfterRange(ln, 5)
        n2 == IF i1 = 0 THEN 0 ELSE DigitRun(ln, i1 + 2)
        i2 == IF i1 = 0 THEN 0 ELSE AfterRange(ln, i1 + 2)
    IN  IF /\ StartsWith(ln, <<"@", "@", Space, "-">>)
           /\ i1 # 0
           /\ StartsWith(Drop(ln, i1 - 1), <<Space, "+">>)
           /\ i2 # 0
           /\ StartsWith(Drop(ln, i2 - 1), <<Space, "@", "@">>)
        THEN IntOf(SubSeq(ln, i1 + 2, i1 + 1 + n2))
        ELSE -1

\* _hunk_starts_at_top(lines)
_hunk_starts_at_top(lines) ==
    \E i \in 1..Len(lines) :
        /\ StartsWith(lines[i], S_HUNK)
        /\ HunkNewStart(lines[i]) # -1
        /\ HunkNewStart(lines[i]) <= 3

IsAdd(l) == StartsWith(l, <<"+">>) /\ ~StartsWith(l, S_PLUS3)
IsDel(l) == StartsWith(l, <<"-">>) /\ ~StartsWith(l, S_MINUS3)
IsHunk(l) == StartsWith(l, S_HUNK)

\* sum(1 for l in fb["lines"] if ...)
Adds(lines) == Cardinality({i \in 1..Len(lines) : IsAdd(lines[i])})
Dels(lines) == Cardinality({i \in 1..Len(lines) : IsDel(lines[i])})
Hunks(lines) == Cardinality({i \in 1..Len(lines) : IsHunk(lines[i])})

\* lines 265-275: the metrics of one block against the tree; the target must
\* not be a directory (open() raises on one)
Metrics(tree, fb) ==
    LET target == Target(fb)
        total_lines == IF target # <<>> /\ KindAt(tree, target) = "file"
                       THEN FileLineCount(tree[target].data) ELSE 0
    IN  [target |-> target,
         total_lines |-> total_lines,
         adds |-> Adds(fb.lines),
         dels |-> Dels(fb.lines),
         hunks |-> Hunks(fb.lines),
         starts_top |-> _hunk_starts_at_top(fb.lines)]

\* a slip that leaves out the test of total_lines
Risky_without_lines(m) ==
    \/ 2 * (m.adds + m.dels) >= m.total_lines
    \/ m.starts_top /\ m.hunks <= 1 /\ 10 * (m.adds + m.dels) >= 3 * m.total_lines

\* a slip that rejects only above one half
Risky_above_half(m) ==
    /\ m.total_lines > 0
    /\ \/ 2 * (m.adds + m.dels) > m.total_lines
       \/ m.starts_top /\ m.hunks <= 1 /\ 10 * (m.adds + m.dels) >= 3 * m.total_lines

\* a slip that drops the single-top-hunk rule
Risky_ratio_only(m) == m.total_lines > 0 /\ 2 * (m.adds + m.dels) >= m.total_lines

\* lines 280-283 without the override: total_lines > 0 and (ratio >= 0.5 or
\* (starts_top and hunks <= 1 and (adds + dels) >= total_lines * 0.3)), the
\* ratio being (adds + dels) / max(total_lines, 1); in whole numbers
Risky(m) ==
    /\ m.total_lines > 0
    /\ \/ 2 * (m.adds + m.dels) >= m.total_lines
       \/ m.starts_top /\ m.hunks <= 1 /\ 10 * (m.adds + m.dels) >= 3 * m.total_lines

\* if (not allow_full) and ...
GateRejects(allow_full, m) == ~allow_full /\ Risky(m)

\* open(target) raises: the target exists and is not a regular file
ReadRaises(tree, fb) == Target(fb) # <<>> /\ KindAt(tree, Target(fb)) = "dir"

\* what the analysis of block fb adds to the log
AnalysisOps(tree, fb) ==
    IF Target(fb) = <<>> THEN <<>>
    ELSE IF ~Exists(tree, Target(fb)) THEN <<Op("exists", Target(fb))>>
    ELSE <<Op("exists", Target(fb)), Op("read", Target(fb))>>

\* lines 257-291: the loop over the blocks from block i on; it ends with
\* "allow" after the last block, with "reject" at the first rejected block,
\* with "raise" at the first target that cannot be read
RECURSIVE AnalyzeFrom(_, _, _, _, _)
AnalyzeFrom(tree, files, i, allow_full, ops) ==
    IF i > Len(files) THEN [verdict |-> "allow", at |-> 0, ops |-> ops]
    ELSE LET fb == files[i]
             ops1 == ops \o AnalysisOps(tree, fb)
         IN  IF ReadRaises(tree, fb)
             THEN [verdict |-> "raise", at |-> i, ops |-> ops1]
             ELSE IF GateRejects(allow_full, Metrics(tree, fb))
             THEN [verdict |-> "reject", at |-> i, ops |-> ops1]
             ELSE AnalyzeFrom(tree, files, i + 1, allow_full, ops1)

Analyze(tree, text) == AnalyzeFrom(tree, ParseBlocks(text), 1, AllowFull(text), <<>>)

-----------------------------------------------------------------------------
(* apply_unified_patch(patch_text, three_way): the call and the subprocess *)

\* line 212: three_way of the positional arguments after patch_text, True
\* when the caller leaves it out
ThreeWay(rest) == IF Len(rest) >= 1 THEN rest[1] ELSE TRUE

\* lines 298-299: tempfile.mkdtemp(prefix="devflow_patch_") and the patch file in it
tmpdir == <<"d", "e", "v", "f", "l", "o", "w", "_", "p", "a", "t", "c", "h", "_">>
patch_path == tmpdir \o <<Slash, "c", "h", "a", "n", "g", "e", ".", "p", "a", "t", "c", "h">>

\* a slip that passes --3way whatever the caller asked
GitApplyCmd_always_3way(three_way) ==
    <<"git", "apply", "--index", "--recount", "--ignore-space-change",
      "--ignore-whitespace", "--3way">>

\* lines 314-316: the command line; the path of the patch file follows it
GitApplyCmd(three_way) ==
    <<"git", "apply", "--index", "--recount", "--ignore-space-change",
      "--ignore-whitespace">> \o (IF three_way THEN <<"--3way">> ELSE <<>>)

\* a slip that writes the patch file and configures git before the early return
ApplierOps_before_abort(verdict, text, three_way) ==
    IF verdict # "raise"
    THEN <<Op("mkdtemp", tmpdir), OpOn("write_patch", patch_path, text),
           OpArgs("git_config", <<"core.autocrlf", "false">>)>>
           \o (IF verdict = "allow"
               THEN <<OpOn("git_apply", patch_path, GitApplyCmd(three_way))>>
               ELSE <<>>)
    ELSE <<>>

\* a slip that leaves git out for an empty buffer
ApplierOps_skip_empty(verdict, text, three_way) ==
    IF verdict = "allow" /\ text # <<>>
    THEN <<Op("mkdtemp", tmpdir), OpOn("write_patch", patch_path, text),
           OpArgs("git_config", <<"core.autocrlf", "false">>),
           OpOn("git_apply", patch_path, GitApplyCmd(three_way))>>
    ELSE <<>>

\* a slip that configures git after the apply
ApplierOps_config_last(verdict, text, three_way) ==
    IF verdict = "allow"
    THEN <<Op("mkdtemp", tmpdir), OpOn("write_patch", patch_path, text),
           OpOn("git_apply", patch_path, GitApplyCmd(three_way)),
           OpArgs("git_config", <<"core.autocrlf", "false">>)>>
    ELSE <<>>

\* lines 294-319: what follows the analysis, only when no block was rejected
ApplierOps(verdict, text, three_way) ==
    IF verdict = "allow"
    THEN <<Op("mkdtemp", tmpdir), OpOn("write_patch", patch_path, text),
           OpArgs("git_config", <<"core.autocrlf", "false">>),
           OpOn("git_apply", patch_path, GitApplyCmd(three_way))>>
    ELSE <<>>

HasOp(ops, name) == \E i \in 1..Len(ops) : ops[i].op = name

\* lines 284-290: the rejection names the target and gives the advice: a
\* smaller diff, logged_editor, or the override marker
RejectMsg(target) ==
    [Result("rejected", target) EXCEPT
        !.guidance = {"smaller context-rich diff", "logged_editor",
                      "[ALLOW_FULL_REWRITE]"}]

\* up to the start of the git apply subprocess
apply_unified_patch(patch_text, rest) ==
    /\ pc = "idle"
    /\ call' = [NoCall EXCEPT !.tool = "apply_unified_patch",
                              !.patch_text = patch_text, !.rest = rest,
                              !.three_way = ThreeWay(rest)]
    /\ fs0' = fs
    /\ fs' = fs
    /\ proc' = NoProc
    /\ LET text == NormalizePatch(patch_text)
           an == Analyze(fs, text)
           ops == an.ops \o ApplierOps(an.verdict, text, ThreeWay(rest))
       IN  /\ log' = ops
           \* git config runs when git can be started; a failure to start is swallowed
           /\ autocrlf' = IF HasOp(ops, "git_config") /\ git_ok THEN "false" ELSE autocrlf
           /\ IF an.verdict = "raise"
              THEN \* the exception of open(target) leaves the function
                   /\ result' = Result("raised", Target(ParseBlocks(text)[an.at]))
                   /\ pc' = "returned"
              ELSE IF an.verdict = "reject"
              THEN /\ result' = RejectMsg(Target(ParseBlocks(text)[an.at]))
                   /\ pc' = "returned"
              ELSE IF ~git_ok
              THEN \* Popen raises FileNotFoundError, caught for git config only
                   /\ result' = Result("raised", <<>>)
                   /\ pc' = "returned"
              ELSE /\ result' = NoResult
                   /\ pc' = "git_apply"
    /\ UNCHANGED <<os_linesep, git_ok>>

\* what git apply can end with: its exit status and what it printed
GitOutcomes == {[code |-> 0, out |-> <<"o", LF>>, err |-> <<>>],
                [code |-> 1, out |-> <<"o", LF>>, err |-> <<"e", LF>>]}

\* the trees git apply can leave: the tree as it is, or the file f rewritten
\* (on a failure only by a three-way merge that ends in conflicts)
GitTrees(tree, code, three_way) ==
    {tree} \cup (IF code = 0 \/ three_way
                 THEN {[tree EXCEPT ![P_f] = File(<<"a", LF, "a", LF>>)]} ELSE {})

\* a slip that takes any output on stdout for a success
ApplyResult_by_output(g) ==
    IF g.out # <<>>
    THEN [Result("ok", <<>>) EXCEPT !.out = RStrip(g.out)]
    ELSE [Result("apply_failed", patch_path) EXCEPT !.out = g.out, !.err = g.err]

\* lines 320-328: the string returned for the outcome g of the subprocess
ApplyResult(g) ==
    IF g.code = 0
    THEN [Result("ok", <<>>) EXCEPT !.out = RStrip(g.out)]
    ELSE [Result("apply_failed", patch_path) EXCEPT !.out = g.out, !.err = g.err]

\* a slip that runs git apply again without --3way after a failure
GitApplyExits_retry ==
    /\ pc = "git_apply"
    /\ \E g \in GitOutcomes :
          /\ fs' \in GitTrees(fs, g.code, call.three_way)
          /\ proc' = g
          /\ IF g.code # 0 /\ call.three_way /\ proc = NoProc
             THEN /\ log' = Append(log, OpOn("git_apply", patch_path, GitApplyCmd(FALSE)))
                  /\ result' = result
                  /\ pc' = "git_apply"
             ELSE /\ log' = log
                  /\ result' = ApplyResult(g)
                  /\ pc' = "returned"
    /\ UNCHANGED <<os_linesep, git_ok, autocrlf, call, fs0>>

\* lines 319-328: the subprocess ends with an exit status, the call returns
GitApplyExits ==
    /\ pc = "git_apply"
    /\ \E g \in GitOutcomes :
          /\ fs' \in GitTrees(fs, g.code, call.three_way)
          /\ proc' = g
          /\ result' = ApplyResult(g)
    /\ pc' = "returned"
    /\ UNCHANGED <<os_linesep, git_ok, autocrlf, call, fs0, log>>

-----------------------------------------------------------------------------
(* POST /api/process of the two agent servers: process_issue(request) *)

\* src/agent_server.py: the handler the labels of the issue select
ProcessMode(labels) ==
    IF "devflow-suggestion" \in labels THEN "suggestion"
    ELSE IF "devflow-agent-automate" \in labels THEN "automate"
    ELSE "suggestion"

\* src/python-agents/agent_server.py: the same with the labels of its routing
ProcessModeAgents(labels) ==
    IF "devflow-agent-suggest-changes" \in labels THEN "suggestion"
    ELSE IF "devflow-agent-apply-changes" \in labels THEN "automate"
    ELSE "suggestion"

Servers == {"src/agent_server.py", "src/python-agents/agent_server.py"}

\* the request is routed to suggest_changes or automate_changes, whose
\* response (a success or a failure) is returned as it is
process_issue(server, labels) ==
    /\ pc = "idle"
    /\ call' = [NoCall EXCEPT !.tool = "process_issue", !.server = server,
                              !.labels = labels]
    /\ \E failed \in BOOLEAN :
          result' = [Result(IF server = "src/agent_server.py"
                            THEN ProcessMode(labels) ELSE ProcessModeAgents(labels),
                            <<>>)
                       EXCEPT !.err = IF failed THEN <<"e">> ELSE <<>>]
    /\ fs0' = fs
    /\ log' = <<>>
    /\ pc' = "returned"
    /\ UNCHANGED <<fs, os_linesep, git_ok, autocrlf, proc>>

-----------------------------------------------------------------------------
(* Specifications: the calls a caller can make, one tool at a time *)

Platforms == {<<LF>>, <<CR, LF>>}

Quiet ==
    /\ pc = "idle"
    /\ call = NoCall
    /\ fs0 = fs
    /\ result = NoResult
    /\ log = <<>>
    /\ proc = NoProc

TreeOf(f, g, d, dh, n, ne, neh) ==
    (P_f :> f) @@ (P_g :> g) @@ (P_d :> d) @@ (P_dh :> dh)
      @@ (P_n :> n) @@ (P_ne :> ne) @@ (P_neh :> neh)

\* the caller takes the result and goes on to its next call
NextCall ==
    /\ pc = "returned"
    /\ pc' = "idle"
    /\ call' = NoCall
    /\ fs0' = fs
    /\ result' = NoResult
    /\ log' = <<>>
    /\ proc' = NoProc
    /\ UNCHANGED <<fs, os_linesep, git_ok, autocrlf>>

(* logged_file_write on a tree with a directory d, a missing directory n *)

WriteContents == {<<>>, <<"a">>, <<"a", LF>>, <<CR, LF>>}

WriteTrees ==
    {TreeOf(Absent, Absent, Dir, dh, Absent, Absent, Absent) :
        dh \in {Absent, File(<<"a", CR, LF>>), File(<<>>)}}

InitWrite ==
    /\ fs \in WriteTrees
    /\ os_linesep \in Platforms
    /\ git_ok = TRUE
    /\ autocrlf = "unset"
    /\ Quiet

WriteCall ==
    \E path \in {P_d, P_dh, P_n, P_neh}, content \in WriteContents :
        logged_file_write(path, content)

NextWrite == WriteCall \/ NextCall

SpecWrite == InitWrite /\ [][NextWrite]_vars

(* /api/process on issues that carry any of the routing labels *)

Labels == {"devflow-suggestion", "devflow-agent-automate",
           "devflow-agent-suggest-changes", "devflow-agent-apply-changes", "bug"}

InitProcess ==
    /\ fs = TreeOf(Absent, Absent, Absent, Absent, Absent, Absent, Absent)
    /\ os_linesep \in Platforms
    /\ git_ok = TRUE
    /\ autocrlf = "unset"
    /\ Quiet

ProcessCall ==
    \E server \in Servers, labels \in SUBSET Labels : process_issue(server, labels)

NextProcess == ProcessCall \/ NextCall

SpecProcess == InitProcess /\ [][NextProcess]_vars

(* logged_editor on a file f, a directory d and a missing path n *)

LongStrs == {Rep("a", EDITOR_MAX_CHARS), Rep("a", EDITOR_MAX_CHARS + 1),
             Rep(LF, EDITOR_MAX_LINES - 1), Rep(LF, EDITOR_MAX_LINES)}
OldStrs == StrsOver(Char, MaxStrLen) \cup LongStrs
NewStrs == StrsOver(Char, 1) \cup {<<CR, LF>>} \cup LongStrs

EditorTrees ==
    {TreeOf(f, Absent, Dir, Absent, Absent, Absent, Absent) :
        f \in {File(c) : c \in StrsOver(Char, MaxFileLen)}}

InitEditor ==
    /\ fs \in EditorTrees
    /\ os_linesep \in Platforms
    /\ git_ok = TRUE
    /\ autocrlf = "unset"
    /\ Quiet

\* every text on the file f; a short and an oversized text on the other paths
EditorInputs ==
    ({P_f} \X OldStrs \X NewStrs)
      \cup ({P_d, P_n} \X {<<"a">>, Rep("a", EDITOR_MAX_CHARS + 1)}
                       \X {<<>>, Rep(LF, EDITOR_MAX_LINES)})

EditorCall ==
    \E in \in EditorInputs :
        /\ Len(fs[P_f].data) <= MaxFileLen
        /\ logged_editor(in[1], in[2], in[3])

NextEditor == EditorCall \/ NextCall

SpecEditor == InitEditor /\ [][NextEditor]_vars

(* apply_unified_patch on a tree with a file f of 0..MaxFileLines lines, a    *)
(* CRLF file g of two lines, a directory d and a missing path n               *)

\* most "+" lines of a drawn block
MaxAdds == 2
\* most lines of the file f
MaxFileLines == 4

RECURSIVE Concat(_)
Concat(seqs) == IF seqs = <<>> THEN <<>> ELSE Head(seqs) \o Concat(Tail(seqs))

\* the lines, each followed by the line ending eol
TextOf(lines, eol) == Concat([i \in 1..Len(lines) |-> lines[i] \o eol])

Digit(n) == <<<<"0", "1", "2", "3", "4", "5", "6", "7", "8", "9">>[n + 1]>>

\* "@@ -s,1 +s @@" and its body
HunkLines(s, body) ==
    <<S_HUNK \o <<"-">> \o Digit(s) \o <<",", "1", Space, "+">> \o Digit(s)
        \o <<Space, "@", "@">>>> \o body

\* one file block: the optional "diff --git" line, the two path lines, and one
\* hunk per start in starts; the first hunk holds the "-" and "+" lines
BlockLines(diff, a, b, starts, adds, dels) ==
    (IF diff THEN <<S_DIFF_GIT \o a \o <<Space>> \o b>> ELSE <<>>)
      \o <<S_MINUS3 \o <<Space>> \o a, S_PLUS3 \o <<Space>> \o b>>
      \o Concat([i \in 1..Len(starts) |->
            HunkLines(starts[i],
                      IF i = 1
                      THEN Rep(<<"-", "a">>, dels) \o Rep(<<"+", "a">>, adds)
                             \o <<<<Space, "a">>>>
                      ELSE <<<<Space, "a">>>>)])

A_(p) == <<"a", Slash>> \o p
B_(p) == <<"b", Slash>> \o p

\* source and destination paths: a change, a creation, a deletion, a change of
\* the CRLF file, a path that is a directory
PathPairs == {<<A_(P_f), B_(P_f)>>, <<S_DEV_NULL, B_(P_n)>>, <<A_(P_f), S_DEV_NULL>>,
              <<A_(P_g), B_(P_g)>>, <<A_(P_d), B_(P_d)>>}
HunkShapes == {<<3>>, <<4>>, <<3, 9>>}

WithMarker(lines, where) ==
    IF where = "first" THEN <<S_ALLOW_FULL_REWRITE>> \o lines
    ELSE IF where = "last" THEN lines \o <<S_ALLOW_FULL_REWRITE>>
    ELSE lines

\* one-block buffers with LF line endings, and CRLF copies of those without
\* marker and "-" lines
OneBlockTexts ==
    {TextOf(WithMarker(BlockLines(TRUE, pp[1], pp[2], starts, adds, dels), where), <<LF>>) :
        pp \in PathPairs, starts \in HunkShapes, adds \in 0..MaxAdds, dels \in 0..1,
        where \in {"none", "first", "last"}}
      \cup {TextOf(BlockLines(TRUE, pp[1], pp[2], starts, adds, 0), <<CR, LF>>) :
        pp \in PathPairs, starts \in HunkShapes, adds \in 0..MaxAdds}

\* blocks for two-file buffers: a one-line change of f, a change of g, a new
\* file n, the directory d
PairBlocks(diff) ==
    {BlockLines(diff, A_(P_f), B_(P_f), <<4>>, 1, 0),
     BlockLines(diff, A_(P_g), B_(P_g), <<4>>, 2, 1),
     BlockLines(diff, S_DEV_NULL, B_(P_n), <<3>>, 2, 0),
     BlockLines(diff, A_(P_d), B_(P_d), <<4>>, 1, 0)}

TwoBlockTexts ==
    {TextOf(WithMarker(b1 \o b2, where), <<LF>>) :
        b1 \in PairBlocks(TRUE), b2 \in PairBlocks(TRUE), where \in {"none", "last"}}
      \cup {TextOf(b1 \o b2, <<LF>>) : b1 \in PairBlocks(FALSE), b2 \in PairBlocks(FALSE)}

PatchTexts == {<<>>} \cup OneBlockTexts \cup TwoBlockTexts

\* n lines "a"
FileOfLines(n) == Concat(Rep(<<"a", LF>>, n))

PatchTrees ==
    {TreeOf(File(FileOfLines(k)), File(<<"a", CR, LF, "a", CR, LF>>), Dir, Absent,
            Absent, Absent, Absent) : k \in 0..MaxFileLines}

InitPatch ==
    /\ fs \in PatchTrees
    /\ os_linesep = <<LF>>
    /\ git_ok \in BOOLEAN
    /\ autocrlf = "true"
    /\ Quiet

\* the positional arguments after patch_text: none, or three_way
RestArgs == {<<>>, <<TRUE>>, <<FALSE>>}

PatchCall ==
    \E patch_text \in PatchTexts, rest \in RestArgs :
        apply_unified_patch(patch_text, rest)

NextPatch == PatchCall \/ GitApplyExits \/ NextCall

SpecPatch == InitPatch /\ [][NextPatch]_vars

(* apply_unified_patch on buffers built line by line: sections with and     *)
(* without a "diff --git" line, with and without the two path lines, and     *)
(* hunks whose added and removed lines themselves begin with "++" or "--"    *)

\* most lines of a drawn hunk body
MaxBodyLines == 2

\* "diff --git a/p b/p", and the path lines "--- a/p", "+++ b/p"
DiffLine(p) == S_DIFF_GIT \o A_(p) \o <<Space>> \o B_(p)
PathLines(p) == <<S_MINUS3 \o <<Space>> \o A_(p), S_PLUS3 \o <<Space>> \o B_(p)>>
\* a line of an extended header
ModeLine == <<"o", "l", "d", Space, "m", "o", "d", "e">>

\* lines of a hunk body: an added and a removed line "a", an added line
\* "++a", a removed line "--a", an added line "++ g", a removed line "-- a",
\* a removed line "-- "
HunkBodyLines == {<<"+", "a">>, <<"-", "a">>, S_PLUS3 \o <<"a">>, S_MINUS3 \o <<"a">>,
                  S_PLUS3 \o <<Space, "g">>, S_MINUS3 \o <<Space, "a">>,
                  S_MINUS3 \o <<Space>>}

\* no hunk, or the header "@@ -1,1 +1 @@" and its body
SectionHunks ==
    {<<>>} \cup {HunkLines(1, body) : body \in StrsOver(HunkBodyLines, MaxBodyLines)}

Section(p, marker, paths, hunk) ==
    (IF marker THEN <<DiffLine(p)>> ELSE <<>>)
      \o (IF paths THEN PathLines(p) ELSE <<ModeLine>>)
      \o hunk

OneSectionTexts ==
    {TextOf(Section(P_f, marker, paths, hunk), <<LF>>) :
        marker \in BOOLEAN, paths \in BOOLEAN, hunk \in SectionHunks}

TwoSectionTexts ==
    {TextOf(Section(P_f, m1, p1, h1) \o Section(P_g, m2, p2, h2), <<LF>>) :
        m1 \in BOOLEAN, p1 \in BOOLEAN, m2 \in BOOLEAN, p2 \in BOOLEAN,
        h1 \in {<<>>, HunkLines(1, <<<<"+", "a">>>>)},
        h2 \in {<<>>, HunkLines(1, <<<<"-", "a">>>>)}}

ParserTexts == OneSectionTexts \cup TwoSectionTexts

InitParse ==
    /\ fs = TreeOf(File(FileOfLines(MaxFileLines)), File(<<"a", CR, LF, "a", CR, LF>>),
                   Dir, Absent, Absent, Absent, Absent)
    /\ os_linesep = <<LF>>
    /\ git_ok = TRUE
    /\ autocrlf = "true"
    /\ Quiet

ParseCall == \E patch_text \in ParserTexts : apply_unified_patch(patch_text, <<>>)

NextParse == ParseCall \/ GitApplyExits \/ NextCall

SpecParse == InitParse /\ [][NextParse]_vars

(* apply_unified_patch on buffers drawn for the gate: every pairing of      *)
(* source and destination path, the deletion of a file, plain multi-file     *)
(* diffs, buffers without any header, and buffers with CR in their line ends *)

\* source and destination paths of a header: prefixed, the sentinel, a path
\* that is not on disk, a path without prefix
GateSrcPaths == {A_(P_f), S_DEV_NULL, A_(P_n), P_f}
GateDstPaths == {B_(P_f), S_DEV_NULL, B_(P_n), P_f}

HeaderTexts ==
    {TextOf(BlockLines(TRUE, a, b, <<1>>, adds, 0), <<LF>>) :
        a \in GateSrcPaths, b \in GateDstPaths, adds \in 0..MaxAdds}

\* "@@ -1,k +0,0 @@" and k removed lines
DeletionHunk(k, removed) ==
    <<S_HUNK \o <<"-", "1", ",">> \o Digit(k) \o <<Space, "+", "0", ",", "0", Space, "@", "@">>>>
      \o Rep(removed, k)

\* the deletion of f: k removed lines "a", or k removed lines "--a"
DeletionTexts ==
    {TextOf(WithMarker(<<DiffLine(P_f), S_MINUS3 \o <<Space>> \o A_(P_f),
                         S_PLUS3 \o <<Space>> \o S_DEV_NULL>>
                         \o DeletionHunk(k, removed), where), <<LF>>) :
        k \in 1..MaxFileLines, removed \in {<<"-", "a">>, S_MINUS3 \o <<"a">>},
        where \in {"none", "last"}}

\* sections of a plain diff: dels removed lines of f, a line added to g, a
\* new file n of one line
PlainF(dels) == BlockLines(FALSE, A_(P_f), B_(P_f), <<3>>, 0, dels)
PlainG == BlockLines(FALSE, A_(P_g), B_(P_g), <<4>>, 1, 0)
PlainN == BlockLines(FALSE, S_DEV_NULL, B_(P_n), <<1>>, 1, 0)

\* plain diffs of one and of two files
PlainTexts ==
    {TextOf(s, <<LF>>) :
        s \in UNION {{PlainF(dels), PlainF(dels) \o PlainN, PlainN \o PlainF(dels),
                      PlainF(dels) \o PlainG, PlainG \o PlainF(dels)} : dels \in 1..2}}

\* buffers without a "diff --git" line and without a path line
BareTexts ==
    {<<>>, <<"a">>, TextOf(<<ModeLine>>, <<LF>>),
     TextOf(HunkLines(1, <<<<"+", "a">>>>), <<LF>>)}

\* a one-line change of f under line endings that hold a CR
CREnds == {<<CR, LF>>, <<CR, CR, LF>>, <<CR>>, <<LF, CR>>}
CRTexts == {TextOf(BlockLines(TRUE, A_(P_f), B_(P_f), <<4>>, 1, 0), eol) : eol \in CREnds}

GateTexts == HeaderTexts \cup DeletionTexts \cup PlainTexts \cup BareTexts \cup CRTexts

InitGate ==
    /\ fs \in PatchTrees
    /\ os_linesep = <<LF>>
    /\ git_ok \in BOOLEAN
    /\ autocrlf = "true"
    /\ Quiet

GateCall == \E patch_text \in GateTexts : apply_unified_patch(patch_text, <<>>)

NextGate == GateCall \/ GitApplyExits \/ NextCall

SpecGate == InitGate /\ [][NextGate]_vars


-----------------------------------------------------------------------------
(* Properties of logged_file_write and logged_editor *)

Returned(tool) == pc = "returned" /\ call.tool = tool

\* C7: a logged_file_write call on a path at which something exists, after any
\* sequence of earlier calls, returns the overwrite refusal and leaves the whole
\* tree as it was: the content at the path is unchanged whatever content was
\* supplied, and no directory is created.
C7_ExistingPathUntouched ==
    (Returned("logged_file_write") /\ Exists(fs0, call.path)) =>
        /\ result.kind = "overwrite_refused"
        /\ fs = fs0
        /\ \A i \in 1..Len(log) : log[i].op \notin {"makedirs", "write"}

\* a refusal on a file that an earlier call of the sequence created
C7_Witness ==
    /\ Returned("logged_file_write")
    /\ call.path = P_neh
    /\ KindAt(fs0, P_neh) = "file"
    /\ fs0[P_neh].data # WriteText(call.content, os_linesep)
    /\ result.kind = "overwrite_refused"

\* the number of lines of an argument text: one more than its newlines, none
\* for the empty text
TextLines(s) == IF Len(s) = 0 THEN 0 ELSE Cardinality({i \in 1..Len(s) : s[i] = LF}) + 1

C9_FirstOccurrenceOnly ==
    (Returned("logged_editor") /\ result.kind = "edited") =>
        fs[call.path].data = ReplaceFirst(fs0[call.path].data, call.old_str, call.new_str)

NoLineEnds(s) == \A i \in 1..Len(s) : s[i] \notin {CR, LF}
\* every line ending of the bytes is CR LF, and there is one
AllCRLF(bytes) ==
    /\ Contains(bytes, <<CR, LF>>)
    /\ \A i \in 1..Len(bytes) :
          /\ bytes[i] = LF => (i > 1 /\ bytes[i - 1] = CR)
          /\ bytes[i] = CR => (i < Len(bytes) /\ bytes[i + 1] = LF)
\* every line ending of the bytes is a bare LF, and there is one
AllLF(bytes) == Contains(bytes, <<LF>>) /\ ~Contains(bytes, <<CR>>)

\* C10: a successful edit whose texts hold no line ending keeps the line-ending
\* style of the file: an all-CRLF file stays all-CRLF, an all-LF file all-LF.
C10_LineEndingsKept ==
    (/\ Returned("logged_editor") /\ result.kind = "edited"
     /\ NoLineEnds(call.old_str) /\ NoLineEnds(call.new_str)) =>
        /\ AllCRLF(fs0[call.path].data) => AllCRLF(fs[call.path].data)
        /\ AllLF(fs0[call.path].data) => AllLF(fs[call.path].data)

\* s with every CR LF turned into LF
NormCRLF(s) == ReplaceAll(s, <<CR, LF>>, <<LF>>)

\* C11: for texts within the limits and an existing file, logged_editor
\* returns pattern-not-found exactly when old_str occurs in the bytes of the
\* file neither as it is nor after the bytes and old_str are both normalized
\* from CRLF to LF; the tree is then as it was; and an old_str that matches
\* only after normalization leads to the edit (or to the no-op warning).
C11_PatternNotFound ==
    (/\ Returned("logged_editor") /\ result.kind # "refused_large"
     /\ KindAt(fs0, call.path) = "file") =>
        LET bytes == fs0[call.path].data
            exact == Contains(bytes, call.old_str)
            norm  == Contains(NormCRLF(bytes), NormCRLF(call.old_str))
        IN  /\ result.kind = "pattern_not_found" <=> (~exact /\ ~norm)
            /\ result.kind = "pattern_not_found" => fs = fs0
            /\ (~exact /\ norm) => result.kind \in {"edited", "no_change"}

\* the text the replacement yields from the text t that was read: first the
\* exact occurrence, else the occurrence after CRLF normalization
Replaced(t, old, new) ==
    IF Contains(t, old) THEN ReplaceFirst(t, old, new)
    ELSE ReplaceFirst(NormCRLF(t), NormCRLF(old), NormCRLF(new))

\* C12: when logged_editor has found the pattern, it returns the no-op warning
\* exactly when the replacement yields the content it read (as it does when
\* old_str equals new_str); the warning comes with no write and an unchanged
\* tree, and the file is written, once, only when the result differs.
C12_NoOpNoWrite ==
    (Returned("logged_editor") /\ result.kind \in {"no_change", "edited"}) =>
        LET t == ReadText(fs0[call.path].data)
            writes == {i \in 1..Len(log) : log[i].op = "write"}
        IN  /\ result.kind = "no_change" <=> Replaced(t, call.old_str, call.new_str) = t
            /\ call.old_str = call.new_str => result.kind = "no_change"
            /\ result.kind = "no_change" => (writes = {} /\ fs = fs0)
            /\ result.kind = "edited" => Cardinality(writes) = 1

\* a no-op although old_str and new_str differ: they are equal once normalized
C12_Witness ==
    /\ Returned("logged_editor") /\ result.kind = "no_change"
    /\ call.old_str # call.new_str
    /\ Len(fs0[call.path].data) > 0
    /\ fs = fs0

\* C17 as stated: logged_file_write on a path at which nothing exists returns
\* the success message, leaves every directory above the path in place and the
\* file at the path holding exactly the supplied content; no other call
\* creates a directory.
C17_NewPathWritten ==
    Returned("logged_file_write") =>
        /\ ~Exists(fs0, call.path) =>
              /\ result.kind = "wrote"
              /\ \A q \in Ancestors(call.path) : KindAt(fs, q) = "dir"
              /\ fs[call.path] = File(call.content)
        /\ result.kind # "wrote" => fs = fs0

\* C17 as amended: on a path at which nothing exists and above which no
\* regular file lies, the call returns the success message, every directory
\* above the path exists afterwards, the file holds the supplied content with
\* each "\n" written as the line separator of the platform, and nothing else
\* changes; when a regular file lies above the path the call returns the
\* write error; every call that does not return success leaves the tree,
\* directories included, as it was.
C17_NewPathWrittenAsText ==
    Returned("logged_file_write") =>
        /\ (/\ ~Exists(fs0, call.path)
            /\ \A q \in Ancestors(call.path) : KindAt(fs0, q) # "file") =>
              /\ result.kind = "wrote"
              /\ \A q \in Ancestors(call.path) : KindAt(fs, q) = "dir"
              /\ fs[call.path] = File(ReplaceAll(call.content, <<LF>>, os_linesep))
              /\ \A q \in DOMAIN fs : q \notin Ancestors(call.path) \cup {call.path}
                                         => fs[q] = fs0[q]
        /\ (/\ ~Exists(fs0, call.path)
            /\ \E q \in Ancestors(call.path) : KindAt(fs0, q) = "file") =>
              result.kind = "error_writing"
        /\ result.kind # "wrote" => fs = fs0

\* a file written two missing directories deep
C17_Witness ==
    /\ Returned("logged_file_write") /\ result.kind = "wrote"
    /\ call.path = P_neh /\ call.content # <<>>
    /\ KindAt(fs0, P_n) = "absent" /\ KindAt(fs0, P_ne) = "absent"
    /\ KindAt(fs, P_n) = "dir" /\ KindAt(fs, P_ne) = "dir"

-----------------------------------------------------------------------------
(* Properties of apply_unified_patch.  The file blocks of a buffer and their *)
(* adds, dels, hunks and anchoring are those the parser and the analyzer     *)
(* compute; total_lines is the line count of the block's target when the     *)
(* call starts.                                                              *)

\* a call of apply_unified_patch that has passed its analysis or returned
InPatchCall == call.tool = "apply_unified_patch" /\ pc \in {"git_apply", "returned"}

Marked == Contains(call.patch_text, S_ALLOW_FULL_REWRITE)
Invoked == HasOp(log, "git_apply")
Mutations == {"mkdtemp", "write_patch", "git_config", "git_apply"}

\* what the claims say of one block with metrics m whose target has kind k
BlockFacts(m, k) ==
    [target |-> m.target,
     is_file |-> k = "file",
     unreadable |-> k = "dir",
     total_lines |-> m.total_lines,
     touched |-> m.adds + m.dels,
     \* touch_ratio = (adds + dels) / max(total_lines, 1) >= 0.5
     half |-> 2 * (m.adds + m.dels) >= (IF m.total_lines > 1 THEN m.total_lines ELSE 1),
     \* exactly one hunk, anchored at a new-file line <= 3, (adds + dels) >= 0.3 * total_lines
     single_top |-> /\ m.hunks = 1
                    /\ m.starts_top
                    /\ 10 * (m.adds + m.dels) >= 3 * m.total_lines]

\* the blocks of the buffer of the call, against the tree the call started on
CallFacts ==
    LET blocks == ParseBlocks(NormalizePatch(call.patch_text))
    IN  [i \in 1..Len(blocks) |->
            BlockFacts(Metrics(fs0, blocks[i]), KindAt(fs0, Target(blocks[i])))]

\* C1 as stated: without the override marker, a block whose target exists on
\* disk with touch_ratio >= 0.5 makes the call return the rewrite rejection,
\* without invoking the apply primitive and with the tree unchanged.
C1_HalfTouchedRejected ==
    (InPatchCall /\ ~Marked) =>
        LET b == CallFacts
        IN  (\E i \in 1..Len(b) : b[i].is_file /\ b[i].half) =>
               /\ pc = "returned" /\ result.kind = "rejected"
               /\ ~Invoked
               /\ fs = fs0

\* C1 as amended: without the override marker, a block whose target is an
\* existing file of at least one line with touch_ratio >= 0.5 keeps the call
\* from invoking the apply primitive and from changing the tree; the call
\* returns the rewrite rejection, unless a block before the first such block
\* names a target that exists and cannot be opened, and then the exception of
\* open() leaves the call.
C1_NonEmptyHalfTouchedRejected ==
    (InPatchCall /\ ~Marked) =>
        LET b == CallFacts
            hit == {i \in 1..Len(b) : b[i].is_file /\ b[i].total_lines >= 1 /\ b[i].half}
        IN  hit # {} =>
               /\ pc = "returned"
               /\ ~Invoked
               /\ fs = fs0
               /\ LET first == CHOOSE i \in hit : \A j \in hit : i <= j
                  IN  result.kind = IF \E j \in 1..(first - 1) : b[j].unreadable
                                    THEN "raised" ELSE "rejected"

\* a two-line change of the four-line file f, rejected
C1_Witness ==
    /\ InPatchCall /\ ~Marked
    /\ Len(CallFacts) = 1 /\ CallFacts[1].target = P_f
    /\ CallFacts[1].total_lines = 4 /\ CallFacts[1].touched = 2
    /\ result.kind = "rejected" /\ fs = fs0

\* C2: without the override marker, when every block that targets an existing
\* file has touch_ratio < 0.5 and is not a single top-anchored hunk of >= 30%,
\* the call does not return the rewrite rejection and invokes the apply primitive.
C2_SafeBufferAllowed ==
    (InPatchCall /\ ~Marked) =>
        LET b == CallFacts
        IN  (\A i \in 1..Len(b) : b[i].is_file => (~b[i].half /\ ~b[i].single_top)) =>
               /\ result.kind # "rejected"
               /\ Invoked

\* C3 as stated: without the override marker, a block whose target exists on
\* disk, with exactly one hunk, anchored at top, and (adds + dels) >= 0.3 *
\* total_lines is rejected when the gate evaluates it, also below a
\* touch_ratio of 0.5; and a rejection always comes from a block that meets
\* this rule or has touch_ratio >= 0.5.
C3_SingleTopHunkRejected ==
    (InPatchCall /\ ~Marked) =>
        LET b == CallFacts
        IN  /\ (\E i \in 1..Len(b) :
                   /\ b[i].is_file /\ b[i].single_top
                   /\ \A j \in 1..(i - 1) : ~b[j].unreadable)
                  => result.kind = "rejected"
            /\ result.kind = "rejected" =>
                  \E i \in 1..Len(b) :
                     /\ b[i].target = result.path /\ b[i].is_file
                     /\ (b[i].half \/ b[i].single_top)

\* C3 as amended: the same for a target that is an existing file of at least
\* one line.
C3_NonEmptySingleTopHunkRejected ==
    (InPatchCall /\ ~Marked) =>
        LET b == CallFacts
        IN  /\ (\E i \in 1..Len(b) :
                   /\ b[i].is_file /\ b[i].total_lines >= 1 /\ b[i].single_top
                   /\ \A j \in 1..(i - 1) : ~b[j].unreadable)
                  => result.kind = "rejected"
            /\ result.kind = "rejected" =>
                  \E i \in 1..Len(b) :
                     /\ b[i].target = result.path /\ b[i].is_file
                     /\ b[i].total_lines >= 1
                     /\ (b[i].half \/ b[i].single_top)

\* one line of the three-line file f touched by a single hunk at line 3:
\* below one half, rejected by the single-top-hunk rule
C3_Witness ==
    /\ InPatchCall /\ ~Marked
    /\ Len(CallFacts) = 1 /\ CallFacts[1].target = P_f
    /\ CallFacts[1].total_lines = 3 /\ CallFacts[1].touched = 1
    /\ ~CallFacts[1].half /\ CallFacts[1].single_top
    /\ result.kind = "rejected"

\* C4: with the override marker anywhere in the buffer the call never returns
\* the rewrite rejection and goes on to the Applier.
C4_OverrideAllows ==
    (InPatchCall /\ Marked) => (result.kind # "rejected" /\ Invoked)

\* C5: the analysis of the blocks comes before every mutation of the call
\* (temporary directory, patch file, repository configuration, apply
\* primitive); a rejected buffer has none of them and leaves every file as it was.
C5_NoPartialApplication ==
    InPatchCall =>
        /\ \A i, j \in 1..Len(log) :
              (i < j /\ log[i].op \in Mutations) => log[j].op \in Mutations
        /\ result.kind = "rejected" =>
              /\ \A i \in 1..Len(log) : log[i].op \notin Mutations
              /\ fs = fs0

\* a two-file buffer whose first block passes and whose second block is rejected
C5_Witness ==
    /\ InPatchCall /\ ~Marked
    /\ result.kind = "rejected" /\ result.path = P_g
    /\ Len(CallFacts) = 2
    /\ CallFacts[1].target = P_f /\ ~CallFacts[1].half /\ ~CallFacts[1].single_top
    /\ fs = fs0

\* C6: no call of the three tools ends with an exception.
C6_NoException == result.kind # "raised"

\* the operations of the call that start git apply, and the set of elements of a sequence
ApplyOps == {i \in 1..Len(log) : log[i].op = "git_apply"}
Elems(q) == {q[i] : i \in 1..Len(q)}
Whitespace == {Space, LF, CR, "\t"}

\* C13: a call of apply_unified_patch reports success exactly when it started
\* git apply and git apply exited with status 0; the success quotes the
\* stdout of git apply (less trailing whitespace); after a nonzero exit the
\* call returns the failure with stdout and stderr as git printed them and
\* with the path of the patch file, the file that holds the normalized buffer
\* and that git apply was given.
C13_ExitStatusReported ==
    Returned("apply_unified_patch") =>
        /\ result.kind = "ok" <=> (Invoked /\ proc.code = 0)
        /\ result.kind = "ok" =>
              \E k \in 0..Len(proc.out) :
                 /\ result.out = SubSeq(proc.out, 1, k)
                 /\ \A j \in (k + 1)..Len(proc.out) : proc.out[j] \in Whitespace
                 /\ k > 0 => proc.out[k] \notin Whitespace
        /\ proc.code > 0 =>
              /\ result.kind = "apply_failed"
              /\ result.out = proc.out /\ result.err = proc.err
              /\ \E i \in 1..Len(log) :
                    /\ log[i].op = "write_patch" /\ log[i].path = result.path
                    /\ log[i].args = NormCRLF(call.patch_text)
              /\ \A i \in ApplyOps : log[i].path = result.path

\* git apply exits with 1 on a buffer that came with CR LF line ends
C13_Witness ==
    /\ Returned("apply_unified_patch") /\ result.kind = "apply_failed"
    /\ proc.code = 1 /\ result.out # <<>> /\ result.err # <<>>
    /\ Contains(call.patch_text, <<CR, LF>>)
    /\ result.path = patch_path

\* C14: a call of apply_unified_patch starts git apply at most once, with the
\* flags that follow from its three_way argument alone; when git apply exits
\* with a nonzero status the call has still started it once only and returns
\* the failure.
C14_SingleInvocation ==
    InPatchCall =>
        /\ Cardinality(ApplyOps) <= 1
        /\ \A i \in ApplyOps : ("--3way" \in Elems(log[i].args)) <=> call.three_way
        /\ (pc = "returned" /\ proc.code > 0) =>
              (Cardinality(ApplyOps) = 1 /\ result.kind = "apply_failed")

\* a three-way apply that failed, started once
C14_Witness ==
    /\ Returned("apply_unified_patch") /\ call.three_way
    /\ proc.code = 1 /\ result.kind = "apply_failed"
    /\ Cardinality(ApplyOps) = 1

\* C15: a rejection names the offending target, states the metrics of that
\* block (its total lines first) and advises a smaller diff or logged_editor.
C15_RejectionCarriesMetrics ==
    (Returned("apply_unified_patch") /\ result.kind = "rejected") =>
        /\ \E i \in 1..Len(CallFacts) :
              /\ CallFacts[i].target = result.path
              /\ Len(result.metrics) > 0
              /\ result.metrics[1] = CallFacts[i].total_lines
        /\ result.guidance \cap {"smaller context-rich diff", "logged_editor"} # {}

FixedFlags == {"--index", "--recount", "--ignore-space-change", "--ignore-whitespace"}

\* C16 as amended: git apply is started as "git apply" with --index,
\* --recount, --ignore-space-change and --ignore-whitespace always, and with
\* --3way unless the caller passed three_way = False (so also when the caller
\* left three_way out); no other flag is passed.
C16_FlagsOfInvocation ==
    InPatchCall =>
        \A i \in ApplyOps :
           LET cmd == log[i].args
           IN  /\ Len(cmd) >= 2 /\ cmd[1] = "git" /\ cmd[2] = "apply"
               /\ FixedFlags \subseteq Elems(cmd)
               /\ Elems(cmd) \subseteq {"git", "apply", "--3way"} \cup FixedFlags
               /\ "--3way" \notin Elems(cmd) <=> call.rest = <<FALSE>>

\* C16 as stated: the same, and each of the four flags can be switched off by
\* the caller: for each flag some arguments of the caller start git apply
\* without it.
C16_EachFlagToggleable ==
    /\ C16_FlagsOfInvocation
    /\ InPatchCall =>
          \A i \in ApplyOps :
             \A flag \in {"--index", "--recount", "--ignore-whitespace", "--3way"} :
                \E rest \in RestArgs : flag \notin Elems(GitApplyCmd(ThreeWay(rest)))

\* git apply started by a caller that passed three_way = False
C16_Witness ==
    /\ InPatchCall /\ call.rest = <<FALSE>>
    /\ \E i \in ApplyOps : "--3way" \notin Elems(log[i].args) /\ "--index" \in Elems(log[i].args)

-----------------------------------------------------------------------------
(* Properties of the parser and the analyzer of apply_unified_patch *)

\* the lines and the file blocks of the normalized buffer of the call
CallLines == SplitLines(NormCRLF(call.patch_text))
CallBlocks == ParseBlocks(NormCRLF(call.patch_text))
\* the "diff --git" lines; the lines at which a section starts: the first
\* line and every "diff --git" line
Markers == {i \in 1..Len(CallLines) : StartsWith(CallLines[i], S_DIFF_GIT)}
Starts == Markers \cup (IF Len(CallLines) > 0 THEN {1} ELSE {})
\* the k-th element of a set of line numbers; the last line of the section
\* that starts at line i, for the section starts S
Kth(S, k) == CHOOSE i \in S : Cardinality({j \in S : j < i}) = k - 1
SectionEnd(S, i) ==
    IF \E j \in S : j > i
    THEN (CHOOSE j \in S : j > i /\ \A h \in S : h > i => j <= h) - 1
    ELSE Len(CallLines)
\* the last "--- " line of the section that starts at line i names a path
HasSourcePath(i) ==
    LET src == {j \in i..SectionEnd(Starts, i) :
                   StartsWith(CallLines[j], S_MINUS3 \o <<Space>>)}
    IN  /\ src # {}
        /\ LET j == CHOOSE h \in src : \A g \in src : g <= h
           IN  \E c \in 5..Len(CallLines[j]) : CallLines[j][c] \notin Whitespace

FirstHunk(lines) ==
    IF \E i \in 1..Len(lines) : StartsWith(lines[i], S_HUNK)
    THEN CHOOSE i \in 1..Len(lines) :
            /\ StartsWith(lines[i], S_HUNK)
            /\ \A j \in 1..(i - 1) : ~StartsWith(lines[j], S_HUNK)
    ELSE Len(lines) + 1

\* the lines of a block that begin with the sign, the path line ("+++ " or
\* "--- " before the first hunk) aside
SignedLines(lines, sign) ==
    {i \in 1..Len(lines) :
        /\ StartsWith(lines[i], <<sign>>)
        /\ ~(i < FirstHunk(lines) /\ StartsWith(lines[i], <<sign, sign, sign, Space>>))}

\* C20: for every block, adds is the number of its lines that begin with "+",
\* the destination path line aside, dels the number of its lines that begin
\* with "-", the source path line aside, and hunks the number of its "@@ "
\* lines: a line of a hunk counts whatever its content is.
C20_CountsWhateverContent ==
    InPatchCall =>
        \A k \in 1..Len(CallBlocks) :
           LET m == Metrics(fs0, CallBlocks[k])
               lines == CallBlocks[k].lines
           IN  /\ m.adds = Cardinality(SignedLines(lines, "+"))
               /\ m.dels = Cardinality(SignedLines(lines, "-"))
               /\ m.hunks = Cardinality({i \in 1..Len(lines) : StartsWith(lines[i], S_HUNK)})

-----------------------------------------------------------------------------
(* Properties of the target, the gate and the steps of apply_unified_patch *)

\* a header path that names a file: present and not the sentinel
Named(p) == p # <<>> /\ p # S_DEV_NULL
\* a header path without its "a/" or "b/"
Unprefixed(p) ==
    IF Len(p) >= 2 /\ p[1] \in {"a", "b"} /\ p[2] = Slash THEN SubSeq(p, 3, Len(p)) ELSE p
Rejected == Returned("apply_unified_patch") /\ result.kind = "rejected"

\* C21: the target of a block is its destination path unless that is
\* /dev/null, then its source path, and none when both are /dev/null; a call
\* is never rejected at a block whose target is not on disk, whatever the
\* block adds and removes, and a buffer none of whose targets is on disk is
\* never rejected.
C21_TargetAndNewFile ==
    InPatchCall =>
        /\ \A k \in 1..Len(CallBlocks) :
              LET a == CallBlocks[k].a
                  b == CallBlocks[k].b
              IN  Metrics(fs0, CallBlocks[k]).target
                     = (IF Named(b) THEN Unprefixed(b)
                        ELSE IF Named(a) THEN Unprefixed(a) ELSE <<>>)
        /\ Rejected => Exists(fs0, result.path)
        /\ (\A k \in 1..Len(CallBlocks) :
               LET t == Metrics(fs0, CallBlocks[k]).target
               IN  t = <<>> \/ ~Exists(fs0, t)) => ~Rejected

\* a new file of MaxAdds lines, its source /dev/null, goes to the apply primitive
C21_Witness ==
    /\ InPatchCall
    /\ Invoked
    /\ Len(CallBlocks) = 1
    /\ CallBlocks[1].a = S_DEV_NULL
    /\ Metrics(fs0, CallBlocks[1]).target = P_n
    /\ ~Exists(fs0, P_n)
    /\ Metrics(fs0, CallBlocks[1]).adds = MaxAdds

\* the steps of the log with operation name
StepsOf(name) == {i \in 1..Len(log) : log[i].op = name}
\* the log holds the analysis, then the patch file with the normalized
\* buffer, then git config, then git apply on that file, each once
StepsInOrder ==
    /\ Cardinality(StepsOf("write_patch")) = 1
    /\ Cardinality(StepsOf("git_config")) = 1
    /\ Cardinality(StepsOf("git_apply")) = 1
    /\ \A i \in StepsOf("exists") \cup StepsOf("read"), j \in StepsOf("write_patch") : i < j
    /\ \A i \in StepsOf("write_patch"), j \in StepsOf("git_config") : i < j
    /\ \A i \in StepsOf("git_config"), j \in StepsOf("git_apply") : i < j
    /\ \A i \in StepsOf("write_patch") :
          /\ log[i].args = NormCRLF(call.patch_text)
          /\ \A j \in StepsOf("git_apply") : log[j].path = log[i].path

\* C22: in a call of apply_unified_patch that passes the gate, the analysis
\* of the normalized buffer comes first, then the normalized buffer is
\* written to the patch file, then git config is attempted, then git apply is
\* started on that file; while git apply runs the call has no result, and the
\* call returns a result only in the step in which git apply ends.
C22_StepsInOrder ==
    /\ []((InPatchCall /\ Invoked) => StepsInOrder)
    /\ [](pc = "git_apply" => (Invoked /\ result = NoResult /\ proc = NoProc))
    /\ [][(pc' = "returned" /\ call'.tool = "apply_unified_patch"
             /\ result'.kind \in {"ok", "apply_failed"})
          => (pc = "git_apply" /\ proc' \in GitOutcomes /\ log' = log /\ call' = call)]_vars

\* a buffer with CR LF line ends whose target was read, applied by git
C22_Witness ==
    /\ Returned("apply_unified_patch")
    /\ result.kind = "ok"
    /\ Contains(call.patch_text, <<CR, LF>>)
    /\ StepsOf("read") # {}
    /\ proc.code = 0

\* C23 as stated: the core.autocrlf setting of the repository is, whenever no
\* call is running, what it was before the first call.
C23_SettingRestored == (pc \in {"idle", "returned"}) => autocrlf = "true"

\* a line of the buffer is a "diff --git" line or a path line
HeaderLine(ln) ==
    \/ StartsWith(ln, S_DIFF_GIT)
    \/ StartsWith(ln, S_MINUS3 \o <<Space>>)
    \/ StartsWith(ln, S_PLUS3 \o <<Space>>)
NoHeaders == \A i \in 1..Len(CallLines) : ~HeaderLine(CallLines[i])

\* C24: a buffer that is empty or has no "diff --git" line and no path line
\* yields no block and is not rejected; the normalized buffer is written to
\* the patch file and git apply is started on it; the call reports success
\* exactly when git apply exits with 0 and the failure exactly when it exits
\* with another status.
C24_NoBlocksGoesToGit ==
    (InPatchCall /\ NoHeaders) =>
        /\ CallBlocks = <<>>
        /\ result.kind # "rejected"
        /\ Invoked
        /\ \E i \in StepsOf("write_patch"), j \in StepsOf("git_apply") :
              /\ i < j
              /\ log[i].args = NormCRLF(call.patch_text)
              /\ log[j].path = log[i].path
        /\ pc = "returned" =>
              /\ result.kind = "ok" <=> proc.code = 0
              /\ result.kind = "apply_failed" <=> proc.code > 0

\* git apply exits with 1 on the empty buffer
C24_Witness ==
    /\ Returned("apply_unified_patch")
    /\ call.patch_text = <<>>
    /\ Invoked
    /\ proc.code = 1
    /\ result.kind = "apply_failed"

\* the files of a plain diff: the lines at which a "--- " line is followed
\* by a "+++ " line; the target such a pair names; the "+" and "-" lines
\* from the pair up to the next pair
FileStarts ==
    {i \in 1..(Len(CallLines) - 1) :
        /\ StartsWith(CallLines[i], S_MINUS3 \o <<Space>>)
        /\ StartsWith(CallLines[i + 1], S_PLUS3 \o <<Space>>)}
FileTarget(i) ==
    LET a == Strip(Drop(CallLines[i], 4))
        b == Strip(Drop(CallLines[i + 1], 4))
    IN  IF Named(b) THEN Unprefixed(b) ELSE IF Named(a) THEN Unprefixed(a) ELSE <<>>
FileTouched(i) ==
    Cardinality({j \in (i + 2)..SectionEnd(FileStarts, i) :
                    CallLines[j] # <<>> /\ CallLines[j][1] \in {"+", "-"}})

\* C25 as stated, for buffers without "diff --git" lines and without the
\* override marker: every file the buffer changes is judged against its own
\* line count, so a call is rejected when the buffer touches half or more of
\* the lines of one existing file.
C25_EachFileJudged ==
    (InPatchCall /\ ~Marked /\ Markers = {}) =>
        \A i \in FileStarts :
           LET t == FileTarget(i)
               n == IF t # <<>> /\ KindAt(fs0, t) = "file"
                    THEN FileLineCount(fs0[t].data) ELSE 0
           IN  (n > 0 /\ 2 * FileTouched(i) >= n) => result.kind = "rejected"

\* the header of a block: its lines before its first "@@ " line; the path
\* its last line with the given prefix gives, <<>> without such a line
HeaderEnd(lines) ==
    IF \E i \in 1..Len(lines) : StartsWith(lines[i], S_HUNK)
    THEN (CHOOSE i \in 1..Len(lines) :
             /\ StartsWith(lines[i], S_HUNK)
             /\ \A j \in 1..(i - 1) : ~StartsWith(lines[j], S_HUNK)) - 1
    ELSE Len(lines)
HeaderPath(lines, prefix) ==
    LET at == {i \in 1..HeaderEnd(lines) : StartsWith(lines[i], prefix \o <<Space>>)}
    IN  IF at = {} THEN <<>>
        ELSE Strip(Drop(lines[CHOOSE i \in at : \A j \in at : j <= i], 4))

\* C26 as stated: the target of a block is the one its header lines name,
\* destination first; no line of a hunk changes it or the file whose lines
\* the gate counts.
C26_HeaderFixesTarget ==
    InPatchCall =>
        \A k \in 1..Len(CallBlocks) :
           LET a == HeaderPath(CallBlocks[k].lines, S_MINUS3)
               b == HeaderPath(CallBlocks[k].lines, S_PLUS3)
               t == IF Named(b) THEN Unprefixed(b)
                    ELSE IF Named(a) THEN Unprefixed(a) ELSE <<>>
               m == Metrics(fs0, CallBlocks[k])
           IN  /\ m.target = t
               /\ m.total_lines = (IF t # <<>> /\ KindAt(fs0, t) = "file"
                                   THEN FileLineCount(fs0[t].data) ELSE 0)

\* C27: a call is never rejected at a block whose target is a file without
\* lines, whatever the block adds; every rejection names a file of at least
\* one line.
C27_EmptyFileNeverRejected ==
    InPatchCall =>
        /\ Rejected =>
              /\ KindAt(fs0, result.path) = "file"
              /\ FileLineCount(fs0[result.path].data) > 0
        /\ (\A k \in 1..Len(CallBlocks) :
               LET t == Metrics(fs0, CallBlocks[k]).target
               IN  t # <<>> /\ KindAt(fs0, t) = "file" /\ fs0[t].data = <<>>) => ~Rejected

\* MaxAdds lines added to the empty file f, without the marker, go to git apply
C27_Witness ==
    /\ InPatchCall /\ ~Marked
    /\ Invoked
    /\ Len(CallBlocks) = 1
    /\ Metrics(fs0, CallBlocks[1]).target = P_f
    /\ KindAt(fs0, P_f) = "file" /\ fs0[P_f].data = <<>>
    /\ Metrics(fs0, CallBlocks[1]).adds = MaxAdds

\* the lines of a block after its header that begin with "-"
RemovedLines(lines) ==
    {i \in (HeaderEnd(lines) + 1)..Len(lines) : lines[i] # <<>> /\ lines[i][1] = "-"}

\* C28 as stated: without the marker, a block whose header names an existing
\* file of at least one line as source and /dev/null as destination, and
\* which removes as many lines as the file has, has the source as target and
\* makes the call return the rejection.
C28_DeletionRejected ==
    (InPatchCall /\ ~Marked /\ Len(CallBlocks) = 1) =>
        LET lines == CallBlocks[1].lines
            a == HeaderPath(lines, S_MINUS3)
            b == HeaderPath(lines, S_PLUS3)
            f == Unprefixed(a)
        IN  (/\ b = S_DEV_NULL /\ Named(a)
             /\ KindAt(fs0, f) = "file"
             /\ FileLineCount(fs0[f].data) > 0
             /\ Cardinality(RemovedLines(lines)) = FileLineCount(fs0[f].data))
            => /\ Metrics(fs0, CallBlocks[1]).target = f
               /\ Rejected /\ result.path = f

\* C29 as stated: the text written to the patch file holds no CR LF pair, and
\* normalizing it again leaves it as it is.
C29_NormalizedOnce ==
    InPatchCall =>
        \A i \in StepsOf("write_patch") :
           /\ ~Contains(log[i].args, <<CR, LF>>)
           /\ NormalizePatch(log[i].args) = log[i].args

-----------------------------------------------------------------------------
(* Properties of logged_editor called with an empty old_str *)

EmptyOldStrOnFile ==
    /\ Returned("logged_editor")
    /\ call.old_str = <<>>
    /\ KindAt(fs0, call.path) = "file"

-----------------------------------------------------------------------------
(* Properties of /api/process *)

\* C18: /api/process routes as its documentation says: to suggestion mode for
\* an issue labelled devflow-suggestion, else to automate mode for an issue
\* labelled devflow-agent-automate, else to suggestion mode.
C18_ModeAsDocumented ==
    Returned("process_issue") =>
        result.kind = (IF "devflow-suggestion" \in call.labels THEN "suggestion"
                       ELSE IF "devflow-agent-automate" \in call.labels THEN "automate"
                       ELSE "suggestion")

====
